---- MODULE Spec2Model ----
(***************************************************************************)
(* tx_attest.py: fetch one transaction from two RPC providers, normalise   *)
(* both views with canonical_tx, and compare them with compare_txs.        *)
(*                                                                         *)
(* Python values are tagged records:                                       *)
(*   IntV(n)   an int              StrV(s)   a str, s a sequence of chars  *)
(*   BytesV(b) a bytes object      ListV(l)  a list of values              *)
(*   NoneV     None                Msg(m)    a str holding a message       *)
(* and Absent marks a key a raw record does not have.                      *)
(***************************************************************************)
EXTENDS Integers, Sequences, FiniteSets, TLC

VARIABLES
    pc,         \* position of main()
    argv,       \* sys.argv[1:2]: <<>> or <<txh>>; the rpc arguments only pick endpoints
    calls,      \* requests sent to the two providers, in order
    chainA,     \* wA.eth.chain_id as read, or Unread
    chainB,     \* wB.eth.chain_id as read, or Unread
    respA,      \* what provider A answered to get_transaction
    respB,      \* what provider B answered to get_transaction
    txA,        \* fetch_tx(wA, txh)
    txB,        \* fetch_tx(wB, txh)
    result,     \* (ok, info) of compare_txs, or NoResult
    hashed,     \* the objects keccak_json was called on
    exitCode,   \* <<the exit status>> once the process has ended
    traceback,  \* TRUE when the process died of an uncaught exception
    raw,        \* the record canonical_tx is applied to on its own
    canon       \* canonical_tx(raw), or Pending before the call

vars == <<pc, argv, calls, chainA, chainB, respA, respB, txA, txB, result,
          hashed, exitCode, traceback, raw, canon>>

----------------------------------------------------------------------------
(* Bounds of the model *)

\* numeric field values range over 0..MaxNum
MaxNum == 17

\* accessList values hold at most MaxList entries
MaxList == 2

----------------------------------------------------------------------------
(* Python values *)

IntV(n) == [k |-> "int", n |-> n]
StrV(s) == [k |-> "str", s |-> s]
BytesV(b) == [k |-> "bytes", b |-> b]
ListV(l) == [k |-> "list", items |-> l]
Msg(m) == [k |-> "msg", m |-> m]
NoneV == [k |-> "none"]
Absent == [k |-> "absent"]

HexDigits == <<"0", "1", "2", "3", "4", "5", "6", "7", "8", "9",
               "a", "b", "c", "d", "e", "f">>

DecDigits == SubSeq(HexDigits, 1, 10)

\* str(n) for an int n >= 0
RECURSIVE ToDec(_)
ToDec(n) == IF n < 10 THEN <<DecDigits[n + 1]>>
            ELSE ToDec(n \div 10) \o <<DecDigits[(n % 10) + 1]>>

\* hex(n)[2:] for an int n >= 0
RECURSIVE ToHex(_)
ToHex(n) == IF n < 16 THEN <<HexDigits[n + 1]>>
            ELSE ToHex(n \div 16) \o <<HexDigits[(n % 16) + 1]>>

Prefix0x == <<"0", "x">>

\* bytes.hex(): two lowercase hex digits per byte, no prefix (line 23 adds
\* "0x" to a .hex() result itself)
RECURSIVE BytesHex(_)
BytesHex(b) == IF b = <<>> THEN <<>>
               ELSE <<HexDigits[(Head(b) \div 16) + 1], HexDigits[(Head(b) % 16) + 1]>>
                    \o BytesHex(Tail(b))

\* chr(c) for the ASCII codes of the decimal digits, "?" for any other byte
AsciiChar(c) == IF c \in 48..57 THEN DecDigits[c - 47] ELSE "?"

IsDecDigit(c) == \E i \in 1..10 : DecDigits[i] = c

DigitVal(c) == (CHOOSE i \in 1..10 : DecDigits[i] = c) - 1

\* the value of a non-empty sequence of decimal digits
RECURSIVE DecValue(_)
DecValue(s) == IF s = <<>> THEN 0
               ELSE 10 * DecValue(SubSeq(s, 1, Len(s) - 1)) + DigitVal(s[Len(s)])

Ok(v) == [ok |-> TRUE, val |-> v]
Raise(m) == [ok |-> FALSE, exc |-> Msg(m)]

ValueErrorInt == "invalid literal for int() with base 10"
TypeErrorInt == "int() argument must be a string, a bytes-like object or a real number"

\* int(s) for a str s: base 10 only
PyIntStr(s) == IF s # <<>> /\ \A i \in 1..Len(s) : IsDecDigit(s[i])
               THEN Ok(IntV(DecValue(s)))
               ELSE Raise(ValueErrorInt)

\* int(v): an int is itself, a str or bytes is parsed as a base-10 literal
PyInt(v) == CASE v.k = "int" -> Ok(v)
              [] v.k = "str" -> PyIntStr(v.s)
              [] v.k = "bytes" -> PyIntStr([i \in 1..Len(v.b) |-> AsciiChar(v.b[i])])
              [] OTHER -> Raise(TypeErrorInt)

----------------------------------------------------------------------------
(* canonical_tx *)

\* the keys of the dict literal, in the order it evaluates them
FieldOrder == <<"hash", "nonce", "from", "to", "value", "gas", "gasPrice",
                "maxFeePerGas", "maxPriorityFeePerGas", "type", "input",
                "accessList", "chainId", "v", "r", "s", "blockNumber",
                "transactionIndex">>

Fields == {FieldOrder[i] : i \in 1..Len(FieldOrder)}

\* int(tx.get(k, 0))
RequiredInts == {"nonce", "value", "gas", "v", "r", "s"}

\* int(tx.get(k, 0)) if tx.get(k) is not None else None
OptionalInts == {"gasPrice", "maxFeePerGas", "maxPriorityFeePerGas", "type",
                 "chainId", "blockNumber", "transactionIndex"}

\* tx.get(k) and tx.get(k, None)
PassThrough == {"from", "to", "input", "accessList"}

\* a key some providers add and canonical_tx does not read
ExtraKeys == {"blockHash"}

RawKeys == Fields \cup ExtraKeys

\* tx.get(k)
Get(tx, k) == IF tx[k] = Absent THEN NoneV ELSE tx[k]

\* tx.get(k, d)
GetDefault(tx, k, d) == IF tx[k] = Absent THEN d ELSE tx[k]

\* tx.get("hash").hex() if isinstance(tx.get("hash"), bytes) else tx.get("hash")
HashField(tx) == IF Get(tx, "hash").k = "bytes"
                 THEN Ok(StrV(BytesHex(Get(tx, "hash").b)))
                 ELSE Ok(Get(tx, "hash"))

ReqInt(tx, f) == PyInt(GetDefault(tx, f, IntV(0)))

OptIntNoNoneCheck(tx, f) == PyInt(GetDefault(tx, f, IntV(0)))

OptInt(tx, f) == IF Get(tx, f) # NoneV THEN PyInt(GetDefault(tx, f, IntV(0)))
                 ELSE Ok(NoneV)

\* the value expression of key f in the dict literal
FieldExpr(tx, f) == CASE f = "hash" -> HashField(tx)
                      [] f \in RequiredInts -> ReqInt(tx, f)
                      [] f \in OptionalInts -> OptInt(tx, f)
                      [] f \in PassThrough -> Ok(Get(tx, f))

\* the dict canonical_tx returns, or [raised |-> the message] of the first
\* int() that fails
canonical_tx(tx) ==
    LET bad == {i \in 1..Len(FieldOrder) : ~FieldExpr(tx, FieldOrder[i]).ok}
    IN  IF bad = {}
        THEN [f \in Fields |-> FieldExpr(tx, f).val]
        ELSE LET first == CHOOSE i \in bad : \A j \in bad : i <= j
             IN  [raised |-> FieldExpr(tx, FieldOrder[first]).exc]

----------------------------------------------------------------------------
(* keccak_json *)

\* sorted(...) of the canonical keys: by code point, a prefix first
SortedFields == <<"accessList", "blockNumber", "chainId", "from", "gas",
                  "gasPrice", "hash", "input", "maxFeePerGas",
                  "maxPriorityFeePerGas", "nonce", "r", "s", "to",
                  "transactionIndex", "type", "v", "value">>

\* the keys of a dict in sorted order
SortedKeys(obj) == SelectSeq(SortedFields, LAMBDA f : f \in DOMAIN obj)

\* json.dumps accepts an int, a str, None and a list of those; not bytes
RECURSIVE JsonOk(_)
JsonOk(v) == CASE v.k \in {"int", "str", "none"} -> TRUE
               [] v.k = "list" -> \A i \in 1..Len(v.items) : JsonOk(v.items[i])
               [] OTHER -> FALSE

\* the items of a list or dict joined by the "," separator
RECURSIVE JoinComma(_)
JoinComma(parts) == IF parts = <<>> THEN <<>>
                    ELSE IF Len(parts) = 1 THEN parts[1]
                    ELSE parts[1] \o <<",">> \o JoinComma(Tail(parts))

\* the JSON text of a value, as a sequence of characters
RECURSIVE JsonValue(_)
JsonValue(v) == CASE v.k = "int" -> ToDec(v.n)
                  [] v.k = "str" -> <<"\"">> \o v.s \o <<"\"">>
                  [] v.k = "none" -> <<"n", "u", "l", "l">>
                  [] v.k = "list" ->
                       <<"[">> \o JoinComma([i \in 1..Len(v.items) |-> JsonValue(v.items[i])])
                       \o <<"]">>

\* json.dumps(obj, sort_keys=True, separators=(",", ":")); a key is one token
JsonDumps(obj) ==
    LET keys == SortedKeys(obj)
    IN  <<"{">>
        \o JoinComma([i \in 1..Len(keys) |->
                        <<"\"", keys[i], "\"", ":">> \o JsonValue(obj[keys[i]])])
        \o <<"}">>

TypeErrorJson == "Object of type bytes is not JSON serializable"

\* "0x" + Web3.keccak(data).hex(): the hash is kept as a term over its input,
\* so two digests are equal exactly when the serialized texts are
keccak_json(obj) == IF \A f \in DOMAIN obj : JsonOk(obj[f])
                    THEN Ok([k |-> "digest", prefix |-> Prefix0x, keccak |-> JsonDumps(obj)])
                    ELSE Raise(TypeErrorJson)

----------------------------------------------------------------------------
(* fetch_tx *)

\* what w3.eth.get_transaction does: returns None, raises, or returns a record
RespRaise(m) == [k |-> "raise", exc |-> Msg(m)]
RespTx(tx) == [k |-> "tx", tx |-> tx]

NotFoundMsg == "transaction not found"

\* the dict fetch_tx returns for an answer of the provider
fetch_tx(resp) ==
    CASE resp.k = "raise" -> [error |-> resp.exc]
      [] resp.k = "none" -> [error |-> Msg(NotFoundMsg)]
      [] OTHER -> LET c == canonical_tx(resp.tx)
                  IN  IF "raised" \in DOMAIN c THEN [error |-> c.raised] ELSE c

----------------------------------------------------------------------------
(* compare_txs *)

\* tx.get("error")
ErrorOf(tx) == IF "error" \in DOMAIN tx THEN tx["error"] ELSE NoneV

\* tx.get(k) on a fetched dict
DictGet(tx, k) == IF k \in DOMAIN tx THEN tx[k] ELSE NoneV

\* sorted(set(tx_a.keys()) | set(tx_b.keys()))
UnionKeys(tx_a, tx_b) == SelectSeq(SortedFields, LAMBDA f : f \in DOMAIN tx_a \cup DOMAIN tx_b)

\* diff_fields: one entry per differing key, in sorted key order
DiffFields(tx_a, tx_b) ==
    LET keys == SelectSeq(UnionKeys(tx_a, tx_b),
                          LAMBDA f : DictGet(tx_a, f) # DictGet(tx_b, f))
    IN  [i \in 1..Len(keys) |->
            [field |-> keys[i], a |-> DictGet(tx_a, keys[i]), b |-> DictGet(tx_b, keys[i])]]

HasErrorBoth(tx_a, tx_b) == "error" \in DOMAIN tx_a /\ "error" \in DOMAIN tx_b

\* "error" in tx_a or "error" in tx_b
HasError(tx_a, tx_b) == "error" \in DOMAIN tx_a \/ "error" \in DOMAIN tx_b

\* (ok, info) with the objects handed to keccak_json, or the exception that
\* json.dumps raised
compare_txs(tx_a, tx_b) ==
    IF HasError(tx_a, tx_b)
    THEN [ok |-> FALSE,
          info |-> [errorA |-> ErrorOf(tx_a), errorB |-> ErrorOf(tx_b)],
          hashed |-> <<>>]
    ELSE IF tx_a = tx_b
    THEN IF keccak_json(tx_a).ok
         THEN [ok |-> TRUE, info |-> [root |-> keccak_json(tx_a).val], hashed |-> <<tx_a>>]
         ELSE [raised |-> keccak_json(tx_a).exc, hashed |-> <<tx_a>>]
    ELSE IF ~keccak_json(tx_a).ok
    THEN [raised |-> keccak_json(tx_a).exc, hashed |-> <<tx_a>>]
    ELSE IF ~keccak_json(tx_b).ok
    THEN [raised |-> keccak_json(tx_b).exc, hashed |-> <<tx_a, tx_b>>]
    ELSE [ok |-> FALSE,
          info |-> [rootA |-> keccak_json(tx_a).val,
                    rootB |-> keccak_json(tx_b).val,
                    fieldDiffs |-> DiffFields(tx_a, tx_b)],
          hashed |-> <<tx_a, tx_b>>]

----------------------------------------------------------------------------
(* Raw records a provider can deliver *)

\* len(txh) == 66: "0x" and two hex digits for each byte of the hash
TxHashLen == 66

HashBytes == (TxHashLen - Len(Prefix0x)) \div 2

Fill(c, n) == [i \in 1..n |-> c]

ByteSamples == {0, 10, 171, 255}

\* 32-byte hashes: one leading byte and 31 equal bytes
HashByteSeqs == {<<b1>> \o Fill(b2, HashBytes - 1) : b1 \in ByteSamples, b2 \in ByteSamples}

\* the 0x-prefixed lowercase hex string a string-native provider gives for b
HexString(b) == StrV(Prefix0x \o BytesHex(b))

\* a number as a native int, a decimal string and a 0x-prefixed hex string
NumReprs(n) == {IntV(n), StrV(ToDec(n)), StrV(Prefix0x \o ToHex(n))}

RawNumValues == UNION {NumReprs(n) : n \in 0..MaxNum}
                \cup {Absent, NoneV, StrV(<<>>), StrV(<<"g">>),
                      BytesV(<<49, 50>>), BytesV(<<171>>)}

RawHashValues == {Absent, NoneV}
                 \cup {BytesV(b) : b \in HashByteSeqs}
                 \cup {HexString(b) : b \in HashByteSeqs}

AddrBytes == {<<171>>, <<205, 1>>}

RawStrValues == {Absent, NoneV, StrV(Prefix0x)}
                \cup {BytesV(b) : b \in AddrBytes}
                \cup {HexString(b) : b \in AddrBytes}

AccessEntries == {HexString(b) : b \in AddrBytes} \cup {BytesV(<<171>>)}

RawListValues == {Absent, NoneV}
                 \cup {ListV(l) : l \in UNION {[1..n -> AccessEntries] : n \in 0..MaxList}}

RawValues(f) == CASE f = "hash" -> RawHashValues
                  [] f \in RequiredInts \cup OptionalInts -> RawNumValues
                  [] f = "accessList" -> RawListValues
                  [] f \in ExtraKeys -> {Absent, HexString(<<1>>)}
                  [] OTHER -> RawStrValues

\* the record {} and a legacy transaction as a string-native provider gives it
EmptyTx == [f \in RawKeys |-> Absent]

BaseTx == [f \in RawKeys |->
             CASE f = "hash" -> HexString(Fill(171, HashBytes))
               [] f = "nonce" -> IntV(5)
               [] f = "value" -> IntV(MaxNum)
               [] f = "gas" -> IntV(MaxNum)
               [] f \in {"from", "to"} -> HexString(<<171>>)
               [] f = "input" -> StrV(Prefix0x)
               [] f \in {"maxFeePerGas", "maxPriorityFeePerGas", "accessList"} -> Absent
               [] f \in {"blockHash"} -> HexString(<<1>>)
               [] OTHER -> IntV(1)]

\* records that differ from {} or from BaseTx in one key
RawTxs == {[base EXCEPT ![f] = v] :
             <<base, f, v>> \in UNION {{<<b, g, w>> : w \in RawValues(g)} :
                                        <<b, g>> \in {EmptyTx, BaseTx} \X RawKeys}}

----------------------------------------------------------------------------
(* canonical_tx as a function of its argument *)

Pending == [k |-> "pending"]
Idle == [k |-> "idle"]
Unread == [k |-> "unread"]
NoResult == [k |-> "noresult"]
Running == <<>>

mainIdle == /\ pc = "idle" /\ argv = <<>> /\ calls = <<>>
            /\ chainA = Unread /\ chainB = Unread
            /\ respA = Idle /\ respB = Idle /\ txA = Idle /\ txB = Idle
            /\ result = NoResult /\ hashed = <<>>
            /\ exitCode = Running /\ traceback = FALSE

mainVars == <<pc, argv, calls, chainA, chainB, respA, respB, txA, txB, result,
              hashed, exitCode, traceback>>

InitCanon == mainIdle /\ raw \in RawTxs /\ canon = Pending

Canonicalize == /\ canon = Pending
                /\ canon' = canonical_tx(raw)
                /\ UNCHANGED <<mainVars, raw>>

NextCanon == Canonicalize

SpecCanon == InitCanon /\ [][NextCanon]_vars

Canonical == canon # Pending /\ DOMAIN canon = Fields

IntFields == RequiredInts \cup OptionalInts

----------------------------------------------------------------------------
(* main *)

HexLen == TxHashLen - Len(Prefix0x)

\* command-line hashes: well formed, a non-hex character among the 64, 65 and
\* 67 characters, no prefix, an upper-case prefix, the empty string
TxHashInputs ==
    {Prefix0x \o Fill("a", HexLen),
     Prefix0x \o Fill("a", HexLen - 1) \o <<"g">>,
     Prefix0x \o <<"g">> \o Fill("0", HexLen - 1),
     Prefix0x \o Fill("a", HexLen - 1),
     Prefix0x \o Fill("a", HexLen + 1),
     Fill("a", HexLen),
     Fill("a", TxHashLen),
     <<"0", "X">> \o Fill("a", HexLen),
     <<>>}

ArgvInputs == {<<>>} \cup {<<h>> : h \in TxHashInputs}

\* records the two providers can answer with
MainRawTxs ==
    {BaseTx, EmptyTx,
     [BaseTx EXCEPT !["nonce"] = IntV(6)],
     [BaseTx EXCEPT !["nonce"] = StrV(<<"5">>)],
     [BaseTx EXCEPT !["nonce"] = StrV(<<"0", "x", "5">>)],
     [BaseTx EXCEPT !["hash"] = BytesV(Fill(171, HashBytes))],
     [BaseTx EXCEPT !["gasPrice"] = Absent],
     [BaseTx EXCEPT !["gasPrice"] = IntV(0)],
     [BaseTx EXCEPT !["input"] = BytesV(<<171>>)],
     [BaseTx EXCEPT !["accessList"] = ListV(<<HexString(<<171>>), HexString(<<205, 1>>)>>)],
     [BaseTx EXCEPT !["accessList"] = ListV(<<HexString(<<205, 1>>), HexString(<<171>>)>>)],
     [BaseTx EXCEPT !["blockHash"] = Absent]}

Responses == {NoneV, RespRaise("timeout"), RespRaise("connection reset")}
             \cup {RespTx(t) : t \in MainRawTxs}

ChainRaise == [k |-> "raise"]

ChainResponses == {IntV(1), IntV(10), ChainRaise}

Call(src, op) == [src |-> src, op |-> op]

\* sys.exit(code)
Exit(code) == /\ pc' = "exit"
              /\ exitCode' = <<code>>
              /\ traceback' = FALSE

\* an exception nothing catches: the interpreter prints it and exits with 1
Uncaught == /\ pc' = "exit"
            /\ exitCode' = <<1>>
            /\ traceback' = TRUE

StartsWith0x(s) == Len(s) >= Len(Prefix0x) /\ SubSeq(s, 1, Len(Prefix0x)) = Prefix0x

\* txh.startswith("0x") and len(txh) == 66
HashGate(txh) == StartsWith0x(txh) /\ Len(txh) = TxHashLen

ChainsDifferOrdered(a, b) == a.n > b.n

\* chainA != chainB
ChainsDiffer(a, b) == a # b

Init == /\ pc = "start"
        /\ argv \in ArgvInputs
        /\ calls = <<>>
        /\ chainA = Unread /\ chainB = Unread
        /\ respA = Idle /\ respB = Idle /\ txA = Idle /\ txB = Idle
        /\ result = NoResult /\ hashed = <<>>
        /\ exitCode = Running /\ traceback = FALSE
        /\ raw = Idle /\ canon = Idle

\* the usage check and the hash check
ParseArgs ==
    /\ pc = "start"
    /\ IF Len(argv) < 1 THEN Exit(1)
       ELSE IF ~HashGate(argv[1]) THEN Exit(2)
       ELSE pc' = "connectA" /\ UNCHANGED <<exitCode, traceback>>
    /\ UNCHANGED <<argv, calls, chainA, chainB, respA, respB, txA, txB, result,
                   hashed, raw, canon>>

\* connect(url): is_connected() asks the provider; sys.exit(1) when it is down
connect(src, next) ==
    \E up \in BOOLEAN :
        /\ calls' = Append(calls, Call(src, "is_connected"))
        /\ IF up THEN pc' = next /\ UNCHANGED <<exitCode, traceback>>
           ELSE Exit(1)

ConnectA ==
    /\ pc = "connectA"
    /\ connect("A", "connectB")
    /\ UNCHANGED <<argv, chainA, chainB, respA, respB, txA, txB, result, hashed,
                   raw, canon>>

ConnectB ==
    /\ pc = "connectB"
    /\ connect("B", "chainA")
    /\ UNCHANGED <<argv, chainA, chainB, respA, respB, txA, txB, result, hashed,
                   raw, canon>>

ReadChainA ==
    /\ pc = "chainA"
    /\ calls' = Append(calls, Call("A", "chain_id"))
    /\ \E r \in ChainResponses :
          IF r = ChainRaise THEN Uncaught /\ UNCHANGED chainA
          ELSE chainA' = r /\ pc' = "chainB" /\ UNCHANGED <<exitCode, traceback>>
    /\ UNCHANGED <<argv, chainB, respA, respB, txA, txB, result, hashed, raw, canon>>

ReadChainB ==
    /\ pc = "chainB"
    /\ calls' = Append(calls, Call("B", "chain_id"))
    /\ \E r \in ChainResponses :
          IF r = ChainRaise THEN Uncaught /\ UNCHANGED chainB
          ELSE chainB' = r /\ pc' = "check" /\ UNCHANGED <<exitCode, traceback>>
    /\ UNCHANGED <<argv, chainA, respA, respB, txA, txB, result, hashed, raw, canon>>

CheckChains ==
    /\ pc = "check"
    /\ IF ChainsDiffer(chainA, chainB) THEN Exit(3)
       ELSE pc' = "fetchA" /\ UNCHANGED <<exitCode, traceback>>
    /\ UNCHANGED <<argv, calls, chainA, chainB, respA, respB, txA, txB, result,
                   hashed, raw, canon>>

FetchA ==
    /\ pc = "fetchA"
    /\ \E resp \in Responses :
          /\ respA' = resp
          /\ txA' = fetch_tx(resp)
    /\ calls' = Append(calls, Call("A", "get_transaction"))
    /\ pc' = "fetchB"
    /\ UNCHANGED <<argv, chainA, chainB, respB, txB, result, hashed, exitCode,
                   traceback, raw, canon>>

FetchB ==
    /\ pc = "fetchB"
    /\ \E resp \in Responses :
          /\ respB' = resp
          /\ txB' = fetch_tx(resp)
    /\ calls' = Append(calls, Call("B", "get_transaction"))
    /\ pc' = "compare"
    /\ UNCHANGED <<argv, chainA, chainB, respA, txA, result, hashed, exitCode,
                   traceback, raw, canon>>

\* compare_txs and the report; main returns, so the exit status is 0
Compare ==
    /\ pc = "compare"
    /\ LET r == compare_txs(txA, txB)
       IN  /\ hashed' = r.hashed
           /\ IF "raised" \in DOMAIN r
              THEN Uncaught /\ UNCHANGED result
              ELSE result' = [ok |-> r.ok, info |-> r.info] /\ Exit(0)
    /\ UNCHANGED <<argv, calls, chainA, chainB, respA, respB, txA, txB, raw, canon>>

Next == \/ ParseArgs
        \/ ConnectA
        \/ ConnectB
        \/ ReadChainA
        \/ ReadChainB
        \/ CheckChains
        \/ FetchA
        \/ FetchB
        \/ Compare

Spec == Init /\ [][Next]_vars

----------------------------------------------------------------------------
(* Properties of canonical_tx *)

\* every integer field of tx holds a number in one of its three forms, or is
\* absent, or is an optional field holding None
NumbersOnly(tx) ==
    \A f \in IntFields :
        \/ tx[f] = Absent
        \/ f \in OptionalInts /\ tx[f] = NoneV
        \/ \E n \in 0..MaxNum : tx[f] \in NumReprs(n)

\* C1: a hash given as raw bytes canonicalizes to the same `hash` value as
\* the same hash given as its lowercase 0x-prefixed hex string.
C1_HexByteEquivalence ==
    (canon # Pending /\ raw["hash"].k = "bytes") =>
        /\ Canonical => canon["hash"] = HexString(raw["hash"].b)
        /\ canon = canonical_tx([raw EXCEPT !["hash"] = HexString(raw["hash"].b)])

\* C2: every integer field carrying n as an int, a decimal string or a
\* 0x-prefixed hex string canonicalizes to the int n.
C2_NumericCoercion ==
    (canon # Pending /\ NumbersOnly(raw)) =>
        /\ Canonical
        /\ \A f \in IntFields : \A n \in 0..MaxNum :
              raw[f] \in NumReprs(n) => canon[f] = IntV(n)

\* C3: an optional field that is absent or null canonicalizes to None and
\* never to 0, a present 0 canonicalizes to 0, and an absent nonce, value,
\* gas, v, r or s canonicalizes to 0.
C3_DefaultPolicy ==
    Canonical =>
        /\ \A f \in OptionalInts :
              /\ raw[f] \in {Absent, NoneV} => canon[f] = NoneV /\ canon[f] # IntV(0)
              /\ raw[f] \in {IntV(0), StrV(<<"0">>)} => canon[f] = IntV(0)
        /\ \A f \in RequiredInts : raw[f] = Absent => canon[f] = IntV(0)

\* the record {} was canonicalized: every default applies at once
C3_Witness ==
    /\ raw = EmptyTx /\ Canonical
    /\ canon["gasPrice"] = NoneV /\ canon["nonce"] = IntV(0)

----------------------------------------------------------------------------
(* Properties of main *)

IsError(tx) == "error" \in DOMAIN tx

\* compare_txs has run
Compared == pc = "exit" /\ txB # Idle

\* the variant of ComparisonResult that (ok, info) stands for
Kind == IF result = NoResult THEN "none"
        ELSE IF result.ok THEN "Match"
        ELSE IF "errorA" \in DOMAIN result.info THEN "FetchFailure"
        ELSE "Mismatch"

GetTxCalls(src) == {i \in 1..Len(calls) : calls[i] = Call(src, "get_transaction")}

\* C4: for two fetched records without error, the result is Match exactly
\* when they are equal, and then the root is the digest of both.
C4_MatchPath ==
    (Compared /\ ~IsError(txA) /\ ~IsError(txB)) =>
        /\ (Kind = "Match") <=> (txA = txB)
        /\ Kind = "Match" =>
              /\ keccak_json(txA).ok /\ keccak_json(txB).ok
              /\ result.info = [root |-> keccak_json(txA).val]
              /\ result.info.root = keccak_json(txB).val

\* the sorted field names on which two canonical records differ
Differing(a, b) == SelectSeq(SortedFields, LAMBDA f : a[f] # b[f])

\* C5: two unequal fetched records without error give Mismatch with the two
\* digests, which differ, and one fieldDiffs entry {a, b} for each differing
\* field and no other, in sorted order.
C5_MismatchPath ==
    (Compared /\ ~IsError(txA) /\ ~IsError(txB) /\ txA # txB) =>
        /\ Kind = "Mismatch"
        /\ DOMAIN result.info = {"rootA", "rootB", "fieldDiffs"}
        /\ keccak_json(txA).ok /\ keccak_json(txB).ok
        /\ result.info.rootA = keccak_json(txA).val
        /\ result.info.rootB = keccak_json(txB).val
        /\ result.info.rootA # result.info.rootB
        /\ result.info.fieldDiffs =
             [i \in 1..Len(Differing(txA, txB)) |->
                 [field |-> Differing(txA, txB)[i],
                  a |-> txA[Differing(txA, txB)[i]],
                  b |-> txB[Differing(txA, txB)[i]]]]

\* the provider's answer makes this side fail
Failed(resp) == \/ resp.k \in {"none", "raise"}
                \/ resp.k = "tx" /\ "raised" \in DOMAIN canonical_tx(resp.tx)

\* the message of the failing side; None for a side that succeeded
ExpectedError(resp) ==
    CASE resp.k = "none" -> Msg("transaction not found")
      [] resp.k = "raise" -> resp.exc
      [] resp.k = "tx" /\ "raised" \in DOMAIN canonical_tx(resp.tx) -> canonical_tx(resp.tx).raised
      [] OTHER -> NoneV

\* C6: past the gates get_transaction goes to both providers whatever the
\* first answered, and when a side fails the result is FetchFailure with the
\* failing side's message, None for the other side, and no digest computed.
C6_FetchFailureCapture ==
    /\ pc = "fetchB" => Cardinality(GetTxCalls("A")) = 1
    /\ (pc = "compare" \/ Compared) =>
          Cardinality(GetTxCalls("A")) = 1 /\ Cardinality(GetTxCalls("B")) = 1
    /\ (Compared /\ (Failed(respA) \/ Failed(respB))) =>
          /\ Kind = "FetchFailure"
          /\ result.info = [errorA |-> ExpectedError(respA), errorB |-> ExpectedError(respB)]
          /\ hashed = <<>>
          /\ exitCode = <<0>> /\ ~traceback

\* A did not find the transaction and B returned it
C6_Witness ==
    /\ Compared /\ respA = NoneV /\ respB = RespTx(BaseTx)
    /\ result = [ok |-> FALSE,
                 info |-> [errorA |-> Msg("transaction not found"), errorB |-> NoneV]]
    /\ hashed = <<>>

BothChainsRead == chainA # Unread /\ chainB # Unread

\* C7: when the two chain ids differ the run ends with exit code 3 and no
\* get_transaction is sent; get_transaction is sent only after both chain
\* ids were read and found equal.
C7_ChainMismatchGate ==
    /\ (BothChainsRead /\ chainA # chainB) =>
          /\ GetTxCalls("A") = {} /\ GetTxCalls("B") = {}
          /\ pc \in {"check", "exit"}
          /\ pc = "exit" => exitCode = <<3>> /\ ~traceback /\ result = NoResult
    /\ (GetTxCalls("A") # {} \/ GetTxCalls("B") # {}) =>
          BothChainsRead /\ chainA = chainB

\* chain ids 1 and 10: refused
C7_Witness ==
    /\ pc = "exit" /\ chainA = IntV(1) /\ chainB = IntV(10)
    /\ exitCode = <<3>> /\ calls = <<Call("A", "is_connected"), Call("B", "is_connected"),
                                   Call("A", "chain_id"), Call("B", "chain_id")>>

HexChars == {HexDigits[i] : i \in 1..Len(HexDigits)} \cup {"A", "B", "C", "D", "E", "F"}

\* "0x" followed by 64 hexadecimal characters
WellFormedHash(h) == /\ Len(h) = TxHashLen
                     /\ SubSeq(h, 1, 2) = Prefix0x
                     /\ \A i \in 3..TxHashLen : h[i] \in HexChars

\* C8: a txHash that is not 0x and 64 hex characters is rejected with exit
\* code 2 before any provider is contacted.
C8_InvalidHashGate ==
    (pc # "start" /\ argv # <<>> /\ ~WellFormedHash(argv[1])) =>
        pc = "exit" /\ exitCode = <<2>> /\ calls = <<>>

\* C9: a run ends without a ComparisonResult only for a missing txHash
\* (exit 1), a malformed txHash (exit 2) or differing chain ids (exit 3);
\* no failure of one provider aborts it, and exit code 1 means missing txHash.
C9_PropagationPolicy ==
    pc = "exit" =>
        /\ ~traceback
        /\ exitCode = <<1>> => argv = <<>>
        /\ result = NoResult =>
              \/ exitCode = <<1>> /\ argv = <<>>
              \/ exitCode = <<2>> /\ argv # <<>> /\ calls = <<>>
              \/ exitCode = <<3>> /\ BothChainsRead /\ chainA # chainB

\* a fetched record without error has the 18 canonical keys and only values
\* json.dumps accepts
Digestible(tx) == (tx # Idle /\ ~IsError(tx)) =>
                      DOMAIN tx = Fields /\ \A f \in Fields : JsonOk(tx[f])

\* C10: every record fetch_tx returns without error has exactly the 18
\* canonical keys and serializable values, so compare_txs always returns
\* Match, Mismatch or FetchFailure and never fails inside keccak_json.
C10_DigestTotality ==
    /\ Digestible(txA) /\ Digestible(txB)
    /\ Compared => Kind \in {"Match", "Mismatch", "FetchFailure"} /\ ~traceback

====
